---- MODULE Spec2Model ----
(***************************************************************************)
(* Model of the two infrastructure primitives of alice-skill-manager:      *)
(*                                                                         *)
(*   - the process lock: AsmProcessLock (src/asm/util.py) and the guarded  *)
(*     region `with asm.lock:` of main() (src/asm/__main__.py);            *)
(*   - the TTL cache: cached_property.__get__ (src/asm/util.py).           *)
(*                                                                         *)
(* Spec      : NumProcs command-line processes, each running main() once.  *)
(* FairSpec  : Spec plus the fairness of the lock's polling loop.          *)
(* CacheSpec : reads, invalidations and clock ticks on owner instances     *)
(*             that share one cached_property.                             *)
(*                                                                         *)
(* AsmProcessLock derives from fasteners' InterProcessLock: the context    *)
(* manager opens the lock file in append mode and polls                    *)
(* fcntl.lockf(LOCK_EX | LOCK_NB) until the kernel grants the lock; on     *)
(* leaving the `with` block it unlocks and closes the file.  Unlocking a   *)
(* lock that is held is taken to succeed.                                  *)
(***************************************************************************)
EXTENDS Integers, Sequences, FiniteSets, TLC

\* ------------------------------------------------------------------ bounds
NumProcs == 2
MaxClock == 3
MaxTTL == 2
MaxValue == 1
MaxCalls == 2
MaxDur == 2

\* ------------------------------------------------------- program constants
\* mutant: chmod(lock_path, 0o755)
ChmodMode_NoOtherWrite == 511 - 18

\* chmod(lock_path, 0o777)
ChmodMode == 511
\* open(lock_path, '+w') creates with mode 0o666 masked by the umask
CreateMode == 438
\* get_error_code: 1 + (sum % 255)
ErrorCodeModulus == 255
\* def __init__(self, ttl=300)
DefaultTTL == 300

Procs == 1..NumProcs
Users == {"u1", "u2"}
\* umask 0o000, 0o022, 0o077
Umasks == {0, 18, 63}
None == "none"

\* keys of main_functions
MainFunctions == {"install", "remove", "list", "update", "default", "search", "info"}
\* what the selected function does: returns False, a str, anything else,
\* raises an AsmException, or raises another exception
Outcomes == {"False", "str", "other", "AsmException", "Exception"}
\* 'AsmException' as code points
AsmExceptionName == <<65, 115, 109, 69, 120, 99, 101, 112, 116, 105, 111, 110>>

VARIABLES
    pc,          \* pc[p]: where process p is in main()
    user,        \* user[p]: the user running process p
    file,        \* the sentinel file: [exists, owner, mode]
    held,        \* the processes whose fcntl lock is granted
    exit,        \* exit[p]: how main() ended, None while it runs
    code,        \* code[p]: the value main() returned, -1 if none
    errno,       \* errno[p]: the error of the last failing OS call of p
    sawMissing,  \* sawMissing[p]: exists(lock_path) was False for p
    blocked,     \* blocked[p]: a lock attempt of p met contention
    running,     \* running[p]: the main function p is executing, else None
    ran,         \* ran[p]: p has started a main function
    truncs,      \* how often the sentinel file was created or truncated
    clock,       \* time.monotonic()
    ttl,         \* cached_property.ttl
    cache,       \* cache[i]: inst._cache of instance i
    calls,       \* calls[i]: invocations of fget on instance i
    stores,      \* stores[i]: entries stored for i since its last invalidation
    ret,         \* the last read: [inst, kind, value, computed]
    found,       \* what the try block of the last read found
    dur,         \* how long fget ran in the last read (0 if not invoked)
    failed       \* failed[i]: the last read of instance i raised

lockVars == <<pc, user, file, held, exit, code, errno, sawMissing, blocked, running, ran, truncs>>
cacheVars == <<clock, ttl, cache, calls, stores, ret, found, dur, failed>>
vars == <<pc, user, file, held, exit, code, errno, sawMissing, blocked, running, ran, truncs,
          clock, ttl, cache, calls, stores, ret, found, dur, failed>>

\* ----------------------------------------------------------------- helpers
RECURSIVE BitAnd(_, _)
BitAnd(a, b) ==
    IF a = 0 \/ b = 0 THEN 0
    ELSE (a % 2) * (b % 2) + 2 * BitAnd(a \div 2, b \div 2)

\* mode & ~mask over the nine permission bits
MaskMode(mode, mask) == BitAnd(mode, 511 - mask)

\* read and write permission of "others" (bits 0o006)
OtherRW(mode) == BitAnd(mode, 6) = 6
\* read and write permission of the owner (bits 0o600)
OwnerRW(mode) == BitAnd(mode, 384) = 384

\* may user u open the sentinel file for reading and writing ('+w')
CanOpenRW(u) ==
    IF file.owner = u THEN OwnerRW(file.mode) ELSE OtherRW(file.mode)

\* may user u open the sentinel file for appending ('a'): write permission
CanOpenW(u) ==
    IF file.owner = u THEN BitAnd(file.mode, 128) = 128 ELSE BitAnd(file.mode, 2) = 2

NoFile == [exists |-> FALSE, owner |-> None, mode |-> 0]

RECURSIVE SumSeq(_)
SumSeq(s) == IF s = <<>> THEN 0 ELSE Head(s) + SumSeq(Tail(s))

get_error_code(name) == 1 + (SumSeq(name) % ErrorCodeModulus)

\* ------------------------------------------------------------ process lock
NoErrno == <<"none", "none">>

\* mutant: a lock path that differs from process to process
LockPath_PerProcess(p) == <<"tmp", "asm_lock", p>>

\* lock_path = join(gettempdir(), 'asm_lock'): one path for every process
LockPath(p) == <<"tmp", "asm_lock">>

\* the kernel grants an exclusive lock on a path no other process has locked
Granted(p) == \A q \in held \ {p} : LockPath(q) # LockPath(p)

\* what fcntl.lockf(LOCK_EX | LOCK_NB) can answer to process p
LockfErrnos(p) == IF Granted(p) THEN {"OK", "ENOLCK"} ELSE {"EAGAIN", "ENOLCK"}

\* mutant: a non-blocking acquisition
Blocking_False == FALSE

\* the context manager acquires with the default blocking=True, no timeout
Blocking == TRUE

\* one attempt of the polling loop: granted, contention (retry while
\* blocking), or any other OS error (raised)
TryAcquireResult(e, blocking) ==
    IF e = "OK" THEN "acquired"
    ELSE IF e \in {"EACCES", "EAGAIN"}
         THEN (IF blocking THEN "retry" ELSE "false")
         ELSE "raise"

\* mutant: the block is entered whatever the acquisition answered
EnterNext_Swallow(r) ==
    CASE r = "acquired" -> "locked"
      [] r = "retry" -> "trylock"
      [] OTHER -> "locked"

\* `with asm.lock:` enters the block only when the lock was acquired; a
\* failed acquisition raises out of main() before the block
EnterNext(r) ==
    CASE r = "acquired" -> "locked"
      [] r = "retry" -> "trylock"
      [] OTHER -> "done"

\* mutant: release at the returns only, not when an exception propagates
WithReleases_OnReturn(how) == how \in {"ret0", "ret1", "asm_error"}

\* mutant: the lock is kept when the block is left
WithReleases_Never(how) == FALSE

\* leaving the `with` block releases the lock, however the block ended
WithReleases(how) == how \in {"ret0", "ret1", "asm_error", "exception"}

\* lines 98-107: how main() ends for each outcome of the main function
ResultExit(outcome) ==
    CASE outcome = "False" -> "ret1"
      [] outcome \in {"str", "other"} -> "ret0"
      [] outcome = "AsmException" -> "asm_error"
      [] OTHER -> "exception"

ResultCode(outcome) ==
    CASE outcome = "False" -> 1
      [] outcome \in {"str", "other"} -> 0
      [] outcome = "AsmException" -> get_error_code(AsmExceptionName)
      [] OTHER -> -1

LockInit ==
    /\ pc = [p \in Procs |-> "idle"]
    /\ user = [p \in Procs |-> "u1"]
    /\ file = NoFile
    /\ held = {}
    /\ exit = [p \in Procs |-> None]
    /\ code = [p \in Procs |-> -1]
    /\ errno = [p \in Procs |-> NoErrno]
    /\ sawMissing = [p \in Procs |-> FALSE]
    /\ blocked = [p \in Procs |-> FALSE]
    /\ running = [p \in Procs |-> None]
    /\ ran = [p \in Procs |-> FALSE]
    /\ truncs = 0

\* a user starts the command: main() up to the construction of the manager
Start(p) ==
    /\ pc[p] = "idle"
    /\ \E u \in Users : user' = [user EXCEPT ![p] = u]
    /\ pc' = [pc EXCEPT ![p] = "exists"]
    /\ UNCHANGED <<file, held, exit, code, errno, sawMissing, blocked, running, ran, truncs>>
    /\ UNCHANGED cacheVars

\* mutant: the file is opened for writing whether or not it exists
AfterExists_Always(e) == "open"

\* if not exists(lock_path): the body is skipped when the file is there
AfterExists(e) == IF e THEN "enter" ELSE "open"

\* AsmProcessLock.__init__: if not exists(lock_path)
CheckExists(p) ==
    /\ pc[p] = "exists"
    /\ pc' = [pc EXCEPT ![p] = AfterExists(file.exists)]
    /\ sawMissing' = [sawMissing EXCEPT ![p] = ~file.exists]
    /\ UNCHANGED <<user, file, held, exit, code, errno, blocked, running, ran, truncs>>
    /\ UNCHANGED cacheVars

\* lock_file = open(lock_path, '+w'): create, or truncate what is there
OpenCreate(p) ==
    /\ pc[p] = "open"
    /\ IF ~file.exists
       THEN /\ \E m \in Umasks :
                 file' = [exists |-> TRUE, owner |-> user[p],
                          mode |-> MaskMode(CreateMode, m)]
            /\ truncs' = truncs + 1
            /\ pc' = [pc EXCEPT ![p] = "close"]
            /\ UNCHANGED <<exit, errno>>
       ELSE IF CanOpenRW(user[p])
       THEN /\ truncs' = truncs + 1
            /\ pc' = [pc EXCEPT ![p] = "close"]
            /\ UNCHANGED <<file, exit, errno>>
       ELSE /\ pc' = [pc EXCEPT ![p] = "done"]
            /\ exit' = [exit EXCEPT ![p] = "init_error"]
            /\ errno' = [errno EXCEPT ![p] = <<"open", "EACCES">>]
            /\ UNCHANGED <<file, truncs>>
    /\ UNCHANGED <<user, held, code, sawMissing, blocked, running, ran>>
    /\ UNCHANGED cacheVars

\* lock_file.close()
CloseFile(p) ==
    /\ pc[p] = "close"
    /\ pc' = [pc EXCEPT ![p] = "chmod"]
    /\ UNCHANGED <<user, file, held, exit, code, errno, sawMissing, blocked, running, ran, truncs>>
    /\ UNCHANGED cacheVars

\* chmod(lock_path, 0o777): only the owner of a file may change its mode
Chmod(p) ==
    /\ pc[p] = "chmod"
    /\ IF file.owner = user[p]
       THEN /\ file' = [file EXCEPT !.mode = ChmodMode]
            /\ pc' = [pc EXCEPT ![p] = "enter"]
            /\ UNCHANGED <<exit, errno>>
       ELSE /\ pc' = [pc EXCEPT ![p] = "done"]
            /\ exit' = [exit EXCEPT ![p] = "init_error"]
            /\ errno' = [errno EXCEPT ![p] = <<"chmod", "EPERM">>]
            /\ UNCHANGED file
    /\ UNCHANGED <<user, held, code, sawMissing, blocked, running, ran, truncs>>
    /\ UNCHANGED cacheVars

\* `with asm.lock:` first opens the lock file for appending
OpenLockFile(p) ==
    /\ pc[p] = "enter"
    /\ IF CanOpenW(user[p])
       THEN /\ pc' = [pc EXCEPT ![p] = "trylock"]
            /\ UNCHANGED <<exit, errno>>
       ELSE /\ pc' = [pc EXCEPT ![p] = "done"]
            /\ exit' = [exit EXCEPT ![p] = "lock_error"]
            /\ errno' = [errno EXCEPT ![p] = <<"open", "EACCES">>]
    /\ UNCHANGED <<user, file, held, code, sawMissing, blocked, running, ran, truncs>>
    /\ UNCHANGED cacheVars

\* one attempt of the polling loop, the kernel answering e
LockStep(p, e) ==
    LET nxt == EnterNext(TryAcquireResult(e, Blocking)) IN
    /\ pc[p] = "trylock"
    /\ e \in LockfErrnos(p)
    /\ pc' = [pc EXCEPT ![p] = nxt]
    /\ held' = IF e = "OK" THEN held \cup {p} ELSE held
    /\ blocked' = [blocked EXCEPT ![p] = @ \/ e \in {"EACCES", "EAGAIN"}]
    /\ errno' = IF e = "OK" THEN errno ELSE [errno EXCEPT ![p] = <<"lockf", e>>]
    /\ exit' = IF nxt = "done" THEN [exit EXCEPT ![p] = "lock_error"] ELSE exit
    /\ UNCHANGED <<user, file, code, sawMissing, running, ran, truncs>>
    /\ UNCHANGED cacheVars

\* the kernel grants the lock
AcquireOK(p) ==
    /\ pc[p] = "trylock"
    /\ LockStep(p, "OK")

\* another process holds the lock: the attempt is repeated
AcquireBlocked(p) ==
    /\ pc[p] = "trylock"
    /\ LockStep(p, "EAGAIN")

\* the lock operation itself fails
AcquireErr(p) ==
    /\ pc[p] = "trylock"
    /\ LockStep(p, "ENOLCK")

\* result = main_functions[args.action]() starts
RunAction(p) ==
    /\ pc[p] = "locked"
    /\ \E f \in MainFunctions : running' = [running EXCEPT ![p] = f]
    /\ ran' = [ran EXCEPT ![p] = TRUE]
    /\ pc' = [pc EXCEPT ![p] = "action"]
    /\ UNCHANGED <<user, file, held, exit, code, errno, sawMissing, blocked, truncs>>
    /\ UNCHANGED cacheVars

\* the main function ends and main() handles its result
Finish(p) ==
    /\ pc[p] = "action"
    /\ \E o \in Outcomes :
          /\ exit' = [exit EXCEPT ![p] = ResultExit(o)]
          /\ code' = [code EXCEPT ![p] = ResultCode(o)]
    /\ pc' = [pc EXCEPT ![p] = "leave"]
    /\ running' = [running EXCEPT ![p] = None]
    /\ UNCHANGED <<user, file, held, errno, sawMissing, blocked, ran, truncs>>
    /\ UNCHANGED cacheVars

\* the `with` block is left: the lock's __exit__ runs
Leave(p) ==
    /\ pc[p] = "leave"
    /\ held' = IF WithReleases(exit[p]) THEN held \ {p} ELSE held
    /\ pc' = [pc EXCEPT ![p] = "done"]
    /\ UNCHANGED <<user, file, exit, code, errno, sawMissing, blocked, running, ran, truncs>>
    /\ UNCHANGED cacheVars

\* --------------------------------------------------------------- TTL cache
Insts == {"A", "B"}
Values == 0..MaxValue
TTLs == 0..MaxTTL

\* inst has no _cache attribute yet
NoCache == [attr |-> FALSE, has |-> FALSE, value |-> -1, last_update |-> -1]
\* inst._cache exists and has no entry for the property
EmptyCache == [attr |-> TRUE, has |-> FALSE, value |-> -1, last_update |-> -1]

NoRet == [inst |-> None, kind |-> None, value |-> -1, computed |-> FALSE]

\* mutant: the age of the entry is not taken from last_update
Expired_NoLastUpdate(t, now, last_update) == t > 0 /\ now > t

\* mutant: ttl = 0 is not exempted from expiry
Expired_NoZeroCheck(t, now, last_update) == now - last_update > t

\* mutant: the ttl is ignored, an entry never expires
Expired_Never(t, now, last_update) == FALSE

\* mutant: an entry expires as soon as its age reaches ttl
Expired_AtBoundary(t, now, last_update) == t > 0 /\ now - last_update >= t

\* if self.ttl > 0 and now - last_update > self.ttl: raise AttributeError
Expired(t, now, last_update) == t > 0 /\ now - last_update > t

\* mutant: a missing key is not treated as a miss
Miss_NoKeyError(i, now) ==
    \/ ~cache[i].attr
    \/ Expired(ttl, now, cache[i].last_update)

\* mutant: every read recomputes
Miss_Always(i, now) == TRUE

\* the try block of __get__ ends in KeyError or AttributeError
Miss(i, now) ==
    \/ ~cache[i].attr
    \/ ~cache[i].has
    \/ Expired(ttl, now, cache[i].last_update)

\* mutant: an existing entry keeps its timestamp
Store_KeepTime(c, v, now) ==
    [attr |-> TRUE, has |-> TRUE, value |-> v,
     last_update |-> IF c.has THEN c.last_update ELSE now]

\* cache[self.__name__] = (value, now)
Store(c, v, now) == [attr |-> TRUE, has |-> TRUE, value |-> v, last_update |-> now]

\* which branch the try block of __get__ takes
ReadFound(i, now) ==
    IF ~cache[i].attr THEN "noattr"
    ELSE IF ~cache[i].has THEN "nokey"
    ELSE IF Expired(ttl, now, cache[i].last_update) THEN "expired"
    ELSE "live"

\* mutant: one dictionary shared by all instances
CacheOwners_Shared(i) == Insts

\* the instances whose _cache is the dictionary a read of i writes to:
\* the dictionary is an attribute of the instance itself
CacheOwners(i) == {i}

\* mutant: the clock is sampled after fget returned
StampTime_End(start, end) == end

\* the timestamp stored with a value: `now`, sampled when __get__ started
StampTime(start, end) == start

\* mutant: the entry is removed when fget raises
AfterRaise_Drop(c, now) == EmptyCache

\* mutant: an existing entry gets the new timestamp before fget is called
AfterRaise_Touch(c, now) == IF c.has THEN [c EXCEPT !.last_update = now] ELSE c

\* mutant: the failure is stored like a value
AfterRaise_StoreFailure(c, now) ==
    [attr |-> TRUE, has |-> TRUE, value |-> -1, last_update |-> now]

\* inst._cache[name] after fget raised: the store is never reached
AfterRaise(c, now) == c

CacheInit ==
    /\ clock = 0
    /\ ttl \in TTLs
    /\ cache = [i \in Insts |-> NoCache]
    /\ calls = [i \in Insts |-> 0]
    /\ stores = [i \in Insts |-> 0]
    /\ ret = NoRet
    /\ found = None
    /\ dur = 0
    /\ failed = [i \in Insts |-> FALSE]

\* __get__ finds a live entry and returns its value
HitStep(i) ==
    /\ ~Miss(i, clock)
    /\ ret' = [inst |-> i, kind |-> "value", value |-> cache[i].value, computed |-> FALSE]
    /\ found' = ReadFound(i, clock)
    /\ dur' = 0
    /\ failed' = [failed EXCEPT ![i] = FALSE]
    /\ UNCHANGED <<clock, ttl, cache, calls, stores>>
    /\ UNCHANGED lockVars

\* __get__ misses, fget(inst) takes d ticks and returns v
ComputeStep(i, d, v) ==
    /\ Miss(i, clock)
    /\ clock' = clock + d
    /\ cache' = [j \in Insts |->
                   IF j \in CacheOwners(i)
                   THEN Store(cache[j], v, StampTime(clock, clock + d))
                   ELSE cache[j]]
    /\ ret' = [inst |-> i, kind |-> "value", value |-> v, computed |-> TRUE]
    /\ calls' = [calls EXCEPT ![i] = @ + 1]
    /\ stores' = [stores EXCEPT ![i] = @ + 1]
    /\ found' = ReadFound(i, clock)
    /\ dur' = d
    /\ failed' = [failed EXCEPT ![i] = FALSE]
    /\ UNCHANGED ttl
    /\ UNCHANGED lockVars

\* __get__ misses, fget(inst) takes d ticks and raises
RaiseStep(i, d) ==
    /\ Miss(i, clock)
    /\ clock' = clock + d
    /\ cache' = [cache EXCEPT ![i] = AfterRaise(cache[i], clock)]
    /\ ret' = [inst |-> i, kind |-> "raised", value |-> -1, computed |-> TRUE]
    /\ calls' = [calls EXCEPT ![i] = @ + 1]
    /\ found' = ReadFound(i, clock)
    /\ dur' = d
    /\ failed' = [failed EXCEPT ![i] = TRUE]
    /\ UNCHANGED <<ttl, stores>>
    /\ UNCHANGED lockVars

\* del instance._cache[<property name>]
DelStep(i) ==
    /\ cache[i].attr /\ cache[i].has
    /\ cache' = [j \in Insts |-> IF j \in CacheOwners(i) THEN EmptyCache ELSE cache[j]]
    /\ stores' = [stores EXCEPT ![i] = 0]
    /\ UNCHANGED <<clock, ttl, calls, ret, found, dur, failed>>
    /\ UNCHANGED lockVars

\* n ticks of the monotonic clock pass
Elapse(n) ==
    /\ clock' = clock + n
    /\ UNCHANGED <<ttl, cache, calls, stores, ret, found, dur, failed>>
    /\ UNCHANGED lockVars

ReadHit(i) ==
    /\ i \in Insts
    /\ HitStep(i)

ReadCompute(i) ==
    /\ calls[i] < MaxCalls
    /\ \E d \in 0..MaxDur, v \in Values :
          /\ clock + d <= MaxClock
          /\ ComputeStep(i, d, v)

ReadRaise(i) ==
    /\ calls[i] < MaxCalls
    /\ \E d \in 0..MaxDur :
          /\ clock + d <= MaxClock
          /\ RaiseStep(i, d)

Invalidate(i) ==
    /\ i \in Insts
    /\ DelStep(i)

\* time passes
Tick ==
    /\ clock < MaxClock
    /\ Elapse(1)

\* ---------------------------------------------------------- specifications
\* in Spec the cache is left alone, with the default ttl=300
CacheIdle ==
    /\ clock = 0
    /\ ttl = DefaultTTL
    /\ cache = [i \in Insts |-> NoCache]
    /\ calls = [i \in Insts |-> 0]
    /\ stores = [i \in Insts |-> 0]
    /\ ret = NoRet
    /\ found = None
    /\ dur = 0
    /\ failed = [i \in Insts |-> FALSE]

Init ==
    /\ LockInit
    /\ CacheIdle

Next ==
    \E p \in Procs :
        \/ Start(p)
        \/ CheckExists(p)
        \/ OpenCreate(p)
        \/ CloseFile(p)
        \/ Chmod(p)
        \/ OpenLockFile(p)
        \/ AcquireOK(p)
        \/ AcquireBlocked(p)
        \/ AcquireErr(p)
        \/ RunAction(p)
        \/ Finish(p)
        \/ Leave(p)

Spec == Init /\ [][Next]_vars

\* the polling loop of a waiting process keeps running: once the lock stays
\* free, its next attempt is granted
FairSpec == Spec /\ \A p \in Procs : WF_vars(AcquireOK(p))

CacheSpecInit ==
    /\ LockInit
    /\ CacheInit

CacheNext ==
    \/ Tick
    \/ \E i \in Insts :
        \/ ReadHit(i)
        \/ ReadCompute(i)
        \/ ReadRaise(i)
        \/ Invalidate(i)

CacheSpec == CacheSpecInit /\ [][CacheNext]_vars

\* ------------------------------------------------- the end-to-end scenario
\* times in tenths of a second: ttl = 1 s, reads at 0 s, 0.5 s and 1.2 s
Scenario == [ttl |-> 10, t1 |-> 0, t2 |-> 5, t3 |-> 12]

\* the wrapped computation of the scenario: an incrementing counter, i.e.
\* the number of times it was invoked before
CounterF(i) == calls[i]

\* invocations the scenario specification allows, one more than it needs
ScenarioCalls == MaxCalls + 2

ScenarioInit ==
    /\ LockInit
    /\ clock = Scenario.t1
    /\ ttl = Scenario.ttl
    /\ cache = [i \in Insts |-> NoCache]
    /\ calls = [i \in Insts |-> 0]
    /\ stores = [i \in Insts |-> 0]
    /\ ret = NoRet
    /\ found = None
    /\ dur = 0
    /\ failed = [i \in Insts |-> FALSE]

\* a tenth of a second passes
ScenarioTick ==
    /\ clock < Scenario.t3
    /\ Elapse(1)

\* a read of A that finds a live entry
ScenarioHit ==
    /\ clock <= Scenario.t3
    /\ HitStep("A")

\* a read of A that invokes the counter, which returns at once
ScenarioCompute ==
    /\ calls["A"] < ScenarioCalls
    /\ ComputeStep("A", 0, CounterF("A"))

\* del A._cache[name]
ScenarioDelete ==
    /\ clock <= Scenario.t3
    /\ DelStep("A")

ScenarioRead == ScenarioHit \/ ScenarioCompute

ScenarioNext ==
    \/ ScenarioTick
    \/ ScenarioHit
    \/ ScenarioCompute
    \/ ScenarioDelete

ScenarioSpec == ScenarioInit /\ [][ScenarioNext]_vars

\* ------------------------------------------------------------ process lock claims
InRegion(p) == pc[p] \in {"locked", "action", "leave"}

\* AsmProcessLock() has returned for p
Constructed(p) ==
    \/ pc[p] \in {"enter", "trylock", "locked", "action", "leave"}
    \/ pc[p] = "done" /\ exit[p] # "init_error"

\* C1: at most one process is inside the region guarded by `with asm.lock`:
\* a process whose acquisition returned excludes every other one.
C1_MutualExclusion == Cardinality({p \in Procs : InRegion(p)}) <= 1

\* C1 witness: one process runs its main function while another one has
\* tried the lock, met contention and is still waiting.
C1_Witness ==
    \E p, q \in Procs :
        /\ pc[p] = "action"
        /\ pc[q] = "trylock" /\ blocked[q]

\* C2: when main() has ended by return 0, return 1, the caught-AsmException
\* return or a propagating exception, the process no longer holds the lock.
C2_ReleasedOnEveryExit ==
    \A p \in Procs :
        pc[p] = "done" /\ exit[p] \in {"ret0", "ret1", "asm_error", "exception"}
            => p \notin held

\* C2 witness: the two processes have left the region, one by an exception
\* other than AsmException and one by the AsmException return.
C2_Witness ==
    \E p, q \in Procs :
        /\ pc[p] = "done" /\ exit[p] = "exception" /\ ran[p]
        /\ pc[q] = "done" /\ exit[q] = "asm_error" /\ ran[q]
        /\ held = {}

\* C3: a main function executes only in a process that holds the lock, and
\* a process whose lock acquisition failed has executed none.
C3_AcquireThenMutate ==
    \A p \in Procs :
        /\ pc[p] = "action" => p \in held /\ running[p] \in MainFunctions
        /\ ran[p] => pc[p] \in {"action", "leave", "done"}
        /\ exit[p] = "lock_error" => ~ran[p] /\ running[p] = None

\* C3 witness: one process failed to acquire and ran nothing, another one
\* runs install under the lock.
C3_Witness ==
    \E p, q \in Procs :
        /\ exit[p] = "lock_error" /\ pc[p] = "done"
        /\ pc[q] = "action" /\ running[q] = "install" /\ q \in held

\* C4: leaving the guarded region always ends with the lock released and
\* main()'s result kept; and, under the fairness of the polling loop, a
\* process that waits for the lock while nobody is inside the guarded region
\* does not wait forever: somebody gets the lock (with no other contender,
\* the waiter) or the waiter's lock operation fails.
C4_ReleaseUnblocksWaiter ==
    /\ [][\A p \in Procs :
            pc[p] = "leave" /\ pc'[p] = "done"
                => p \notin held' /\ exit'[p] = exit[p]]_vars
    /\ \A p \in Procs :
          (pc[p] = "trylock" /\ \A q \in Procs : ~InRegion(q))
              ~> ((\E q \in Procs : InRegion(q)) \/ pc[p] # "trylock")

\* C4 witness: a process that met contention is still waiting and the
\* holder has released the lock and ended.
C4_Witness ==
    \E p, q \in Procs :
        /\ pc[p] = "trylock" /\ blocked[p]
        /\ pc[q] = "done" /\ ran[q]
        /\ held = {}

\* C5: a lock-acquisition failure is reported only for a failed OS
\* operation (opening or locking the file), never for contention; a process
\* that met contention keeps waiting or goes on to acquire.
C5_ContentionBlocks ==
    \A p \in Procs :
        /\ exit[p] = "lock_error"
              => errno[p] \in {<<"open", "EACCES">>, <<"lockf", "ENOLCK">>}
        /\ errno[p] \in {<<"lockf", "EAGAIN">>, <<"lockf", "EACCES">>}
              => blocked[p] /\ exit[p] # "lock_error"
                 /\ (pc[p] = "done" => ran[p])

\* C5 witness: a process that met contention has acquired the lock later
\* and runs its main function.
C5_Witness ==
    \E p \in Procs :
        /\ blocked[p] /\ errno[p] = <<"lockf", "EAGAIN">>
        /\ pc[p] = "action" /\ p \in held

\* C6: a process that found the sentinel file missing and whose
\* construction of AsmProcessLock completed leaves a file that exists and
\* that other users may read and write.
C6_FirstUseInit ==
    \A p \in Procs :
        sawMissing[p] /\ Constructed(p)
            => file.exists /\ OtherRW(file.mode)

\* C6 witness: the creator's construction is complete and a process of
\* another user, which found the file present, has opened it for locking.
C6_Witness ==
    \E p, q \in Procs :
        /\ sawMissing[p] /\ Constructed(p) /\ file.owner = user[p]
        /\ user[q] # user[p] /\ ~sawMissing[q] /\ pc[q] = "trylock"
        /\ truncs = 1

\* C7 (as claimed): whatever the interleaving of two initializations, no
\* process ends in an error, and when all of them are over the file exists
\* and is world-writable.
C7_RaceSafeInit ==
    /\ \A p \in Procs : exit[p] # "init_error"
    /\ (/\ \E p \in Procs : sawMissing[p]
        /\ \A p \in Procs : pc[p] \notin {"exists", "open", "close", "chmod"})
          => file.exists /\ OtherRW(file.mode)

\* ------------------------------------------------------------ TTL cache claims
\* the step is a read of i: one of the three ways through __get__, fget
\* having taken the time that passed and returned the value that is returned
Read(i) ==
    /\ ret'.inst = i
    /\ \/ HitStep(i)
       \/ ComputeStep(i, clock' - clock, ret'.value)
       \/ RaiseStep(i, clock' - clock)

\* C8: for ttl > 0, a read less than ttl after the timestamp of the entry
\* (the clock of the read that computed it) does not invoke fget, leaves the
\* entry alone and returns the entry's value.
C8_HitWithinTTL ==
    [][\A i \in Insts :
          (/\ ttl > 0
           /\ cache[i].has
           /\ clock - cache[i].last_update < ttl
           /\ Read(i))
          => /\ calls' = calls
             /\ cache' = cache
             /\ ret' = [inst |-> i, kind |-> "value",
                        value |-> cache[i].value, computed |-> FALSE]]_vars

\* C8 witness: instance A was read again later than, and within ttl of, the
\* read that computed its entry; fget ran once.
C8_Witness ==
    /\ ttl > 0
    /\ cache["A"].has
    /\ clock > cache["A"].last_update /\ clock - cache["A"].last_update < ttl
    /\ ret.inst = "A" /\ ~ret.computed /\ ret.value = cache["A"].value
    /\ calls["A"] = 1

\* C9: for ttl > 0, a read more than ttl after the entry's timestamp invokes
\* fget once more and, when fget returns, returns the new value and stores it
\* with the read's clock, strictly later than the timestamp replaced.
C9_Expiry ==
    [][\A i \in Insts :
          (/\ ttl > 0
           /\ cache[i].has
           /\ clock - cache[i].last_update > ttl
           /\ Read(i))
          => /\ calls'[i] = calls[i] + 1
             /\ ret'.inst = i /\ ret'.computed
             /\ ret'.kind = "value"
                  => /\ cache'[i].has
                     /\ cache'[i].value = ret'.value
                     /\ cache'[i].last_update = clock
                     /\ cache'[i].last_update > cache[i].last_update]_vars

\* C9 witness: an entry of A was replaced on expiry (two stores and no
\* invalidation in between) by the read that has just returned.
C9_Witness ==
    /\ ttl > 0
    /\ stores["A"] = 2 /\ calls["A"] = 2
    /\ ret.inst = "A" /\ ret.computed /\ ret.kind = "value"
    /\ cache["A"].last_update > ttl

\* C10: with ttl = 0, an instance stores at most one entry as long as it is
\* not invalidated, and every read that finds the entry returns its value
\* without invoking fget, whatever the time elapsed.
C10_NeverExpires ==
    /\ [](ttl = 0 => \A i \in Insts : stores[i] <= 1)
    /\ [][\A i \in Insts :
            (ttl = 0 /\ cache[i].has /\ Read(i))
            => /\ calls' = calls
               /\ cache' = cache
               /\ ret' = [inst |-> i, kind |-> "value",
                          value |-> cache[i].value, computed |-> FALSE]]_vars

\* C10 witness: with ttl = 0, A's entry is read from the cache three ticks
\* after it was computed; fget ran once.
C10_Witness ==
    /\ ttl = 0
    /\ cache["A"].has /\ clock - cache["A"].last_update >= 3
    /\ ret.inst = "A" /\ ~ret.computed /\ ret.value = cache["A"].value
    /\ calls["A"] = 1 /\ stores["A"] = 1

\* C11: for any ttl, deleting the entry leaves no entry, and the read that
\* finds the entry deleted invokes fget once and, when fget returns, stores
\* (value, now) and returns the value; nothing else has to be called.
C11_InvalidateThenRead ==
    /\ [][\A i \in Insts :
            Invalidate(i) => ~cache'[i].has /\ calls' = calls]_vars
    /\ [][\A i \in Insts :
            (cache[i].attr /\ ~cache[i].has /\ Read(i))
            => /\ calls'[i] = calls[i] + 1
               /\ ret'.inst = i /\ ret'.computed
               /\ ret'.kind = "value"
                    => cache'[i] = [attr |-> TRUE, has |-> TRUE,
                                    value |-> ret'.value,
                                    last_update |-> clock]]_vars

\* C11 witness: with ttl > 0 and no time elapsed since the first
\* computation, A's entry was deleted and the read after it computed again.
C11_Witness ==
    /\ ttl > 0 /\ clock = 0
    /\ found = "nokey"
    /\ ret.inst = "A" /\ ret.computed /\ ret.kind = "value"
    /\ calls["A"] = 2 /\ stores["A"] = 1
    /\ cache["A"].has /\ cache["A"].value = ret.value

\* C12: a read (hit, computation, failure) or an invalidation on one
\* instance leaves every other instance's entry and counters unchanged, and
\* a read on an instance computes exactly when that instance's own entry is
\* missing or expired.
C12_InstanceIndependence ==
    /\ [][\A i, j \in Insts :
            (i # j /\ (Read(i) \/ Invalidate(i)))
            => /\ cache'[j] = cache[j]
               /\ calls'[j] = calls[j]
               /\ stores'[j] = stores[j]]_vars
    /\ [][\A j \in Insts :
            Read(j)
            => (ret'.computed
                  <=> (\/ ~cache[j].has
                       \/ ttl > 0 /\ clock - cache[j].last_update > ttl))]_vars

\* C12 witness: A's entry was replaced on expiry while B keeps its older
\* entry with another value.
C12_Witness ==
    /\ cache["A"].has /\ cache["B"].has
    /\ stores["A"] = 2 /\ stores["B"] = 1
    /\ cache["B"].last_update < cache["A"].last_update
    /\ cache["B"].value # cache["A"].value
    /\ ret.inst = "A" /\ ret.computed

\* C13: a read whose fget raises reports the failure and leaves the cache
\* mapping exactly as it was: nothing is created, no value and no timestamp
\* changes.
C13_FailureWritesNothing ==
    [][\A i \in Insts :
          (Read(i) /\ ret'.kind = "raised")
          => /\ cache' = cache
             /\ stores' = stores
             /\ ret'.inst = i /\ failed'[i]]_vars

\* C13 witness: fget raised in the read that followed an invalidation of A;
\* A's dictionary is still empty.
C13_Witness ==
    /\ ret.inst = "A" /\ ret.kind = "raised"
    /\ found = "nokey"
    /\ cache["A"] = EmptyCache
    /\ calls["A"] = 2

\* C14 (as claimed): after a read whose fget raised, the instance's cache
\* holds no expired entry for the property.
C14_NoStaleEntryLeft ==
    \A i \in Insts :
        failed[i] => ~(/\ cache[i].has
                       /\ ttl > 0
                       /\ clock - cache[i].last_update > ttl)

\* C14 (amended): after a read whose fget raised, the instance's cache holds
\* no live entry and no partial one: the entry is absent, or it is the
\* complete entry that had expired before the read, still expired.
C14_NoLiveEntryAfterFailure ==
    \A i \in Insts :
        failed[i] =>
            \/ ~cache[i].has
            \/ /\ ttl > 0
               /\ clock - cache[i].last_update > ttl
               /\ cache[i].value \in Values
               /\ cache[i].last_update >= 0

\* C14 witness: the recomputation of A's expired entry raised and the
\* expired entry is still in the cache.
C14_Witness ==
    /\ failed["A"]
    /\ ret.inst = "A" /\ ret.kind = "raised"
    /\ found = "expired"
    /\ cache["A"].has
    /\ clock - cache["A"].last_update > ttl

\* C15: the read of an instance that follows a read of it whose fget raised
\* invokes fget again; what it returns is what fget returned, stored with
\* the read's clock.
C15_RetryAfterFailure ==
    [][\A i \in Insts :
          (failed[i] /\ Read(i))
          => /\ ret'.computed
             /\ calls'[i] = calls[i] + 1
             /\ ret'.kind = "value"
                  => /\ cache'[i].has
                     /\ cache'[i].value = ret'.value
                     /\ cache'[i].last_update = clock]_vars

\* C15 witness: A's first read raised (no _cache attribute was left) and
\* the second read computed and stored a value.
C15_Witness ==
    /\ calls["A"] = 2 /\ stores["A"] = 1
    /\ found = "noattr"
    /\ ret.inst = "A" /\ ret.kind = "value" /\ ret.computed
    /\ ~failed["A"]

\* C16: a read invokes fget once, for its own instance, when the entry is
\* missing or expired, and not at all otherwise; a read that finds no entry
\* stores (value, now) and returns the value.
C16_OncePerMiss ==
    [][\A i \in Insts :
          Read(i)
          => LET miss == \/ ~cache[i].has
                         \/ ttl > 0 /\ clock - cache[i].last_update > ttl
             IN /\ miss => calls'[i] = calls[i] + 1
                /\ ~miss => calls'[i] = calls[i]
                /\ \A j \in Insts \ {i} : calls'[j] = calls[j]
                /\ (~cache[i].has /\ ret'.kind = "value")
                     => /\ ret'.inst = i
                        /\ cache'[i] = [attr |-> TRUE, has |-> TRUE,
                                        value |-> ret'.value,
                                        last_update |-> clock]]_vars

\* C16 witness: the first read of A computed, and a later read of A was a
\* hit: one invocation for two reads.
C16_Witness ==
    /\ calls["A"] = 1 /\ stores["A"] = 1
    /\ found = "live"
    /\ ret.inst = "A" /\ ~ret.computed /\ ret.value = cache["A"].value
    /\ calls["B"] = 0

\* C18: for ttl > 0, a read at which now - last_update equals ttl is a hit;
\* a read of an existing entry recomputes only when now - last_update
\* exceeds ttl.
C18_StrictBoundary ==
    [][\A i \in Insts :
          (ttl > 0 /\ cache[i].has /\ Read(i))
          => /\ clock - cache[i].last_update = ttl
                  => /\ ~ret'.computed
                     /\ calls' = calls
                     /\ cache' = cache
                     /\ ret'.value = cache[i].value
             /\ ret'.computed => clock - cache[i].last_update > ttl]_vars

\* C18 witness: A's entry is exactly ttl old and was read from the cache at
\* this very clock value (B's entry was computed at it, before A's read).
C18_Witness ==
    /\ ttl > 0
    /\ cache["A"].has /\ clock - cache["A"].last_update = ttl
    /\ cache["B"].has /\ cache["B"].last_update = clock
    /\ ret.inst = "A" /\ ~ret.computed /\ ret.value = cache["A"].value
    /\ calls["A"] = 1

\* C19: the timestamp stored by a read that computed is the clock at the
\* start of the read, not the clock at its end; so when fget ran longer than
\* ttl > 0 the entry is expired on return, and the next read of the instance
\* computes again.
C19_TimestampBeforeCompute ==
    /\ [][\A i \in Insts :
            (Read(i) /\ ret'.computed /\ ret'.kind = "value")
            => /\ cache'[i].last_update = clock
               /\ (ttl > 0 /\ clock' - clock > ttl)
                    => clock' - cache'[i].last_update > ttl]_vars
    /\ [][\A i \in Insts :
            (/\ ttl > 0 /\ dur > ttl
             /\ ret.inst = i /\ ret.computed /\ ret.kind = "value"
             /\ cache[i].has
             /\ Read(i))
            => ret'.computed /\ calls'[i] = calls[i] + 1]_vars

\* C19 witness: fget ran longer than ttl for A; on return, with no tick
\* since, the stored entry is older than ttl.
C19_Witness ==
    /\ ttl > 0 /\ dur > ttl
    /\ ret.inst = "A" /\ ret.computed /\ ret.kind = "value"
    /\ cache["A"].has
    /\ clock - cache["A"].last_update = dur

\* A's entry is (v, t)
ScenarioEntry(v, t) ==
    cache["A"] = [attr |-> TRUE, has |-> TRUE, value |-> v, last_update |-> t]

\* C17: with the counter wrapped with ttl = 1 s on A: the read at 0 s invokes
\* f and returns 0; after it the read at 0.5 s returns 0 without invoking f;
\* the read at 1.2 s invokes f and returns 1; after the entry is deleted the
\* read at the same instant invokes f and returns 2, the third invocation.
C17_Scenario ==
    /\ [][(/\ clock = Scenario.t1 /\ calls["A"] = 0
           /\ ScenarioRead)
          => /\ ret'.value = 0 /\ ret'.computed
             /\ calls'["A"] = 1
             /\ ScenarioEntry(0, Scenario.t1)']_vars
    /\ [][(/\ clock = Scenario.t2 /\ calls["A"] = 1
           /\ ScenarioEntry(0, Scenario.t1)
           /\ ScenarioRead)
          => /\ ret'.value = 0 /\ ~ret'.computed
             /\ calls' = calls
             /\ cache' = cache]_vars
    /\ [][(/\ clock = Scenario.t3 /\ calls["A"] = 1
           /\ ScenarioEntry(0, Scenario.t1)
           /\ ScenarioRead)
          => /\ ret'.value = 1 /\ ret'.computed
             /\ calls'["A"] = 2
             /\ ScenarioEntry(1, Scenario.t3)']_vars
    /\ [][(/\ clock = Scenario.t3 /\ calls["A"] = 2
           /\ ScenarioEntry(1, Scenario.t3)
           /\ ScenarioDelete)
          => /\ cache'["A"] = EmptyCache
             /\ clock' = clock
             /\ calls' = calls]_vars
    /\ [][(/\ clock = Scenario.t3 /\ calls["A"] = 2
           /\ cache["A"] = EmptyCache
           /\ ScenarioRead)
          => /\ ret'.value = 2 /\ ret'.computed
             /\ calls'["A"] = 3
             /\ ScenarioEntry(2, Scenario.t3)']_vars

\* C17 witness: the end of the scenario: at 1.2 s the read that found the
\* entry deleted has returned 2 from the third invocation of f.
C17_Witness ==
    /\ clock = Scenario.t3
    /\ found = "nokey"
    /\ ret = [inst |-> "A", kind |-> "value", value |-> 2, computed |-> TRUE]
    /\ calls["A"] = 3 /\ stores["A"] = 1
    /\ ScenarioEntry(2, Scenario.t3)

\* C20: a construction of AsmProcessLock that finds the lock file leaves it
\* as it is: it goes straight on without truncating the file or changing
\* its owner or mode; no step of a process that found the file changes it;
\* and a file without world read/write permission gets it only from the
\* chmod of a process that had found the file missing.
C20_ExistingFileUntouched ==
    /\ [][\A p \in Procs :
            (pc[p] = "exists" /\ file.exists /\ pc'[p] # pc[p])
            => /\ pc'[p] = "enter"
               /\ ~sawMissing'[p]
               /\ file' = file
               /\ truncs' = truncs]_vars
    /\ [][\A p \in Procs :
            (~sawMissing[p] /\ pc'[p] # pc[p])
            => /\ file' = file
               /\ truncs' = truncs]_vars
    /\ [][(file.exists /\ ~OtherRW(file.mode) /\ OtherRW(file'.mode))
          => \E p \in Procs :
                /\ sawMissing[p]
                /\ pc[p] = "chmod"
                /\ pc'[p] = "enter"]_vars

\* C20 witness: the creator stands between creating the file and chmod, the
\* file has no world read/write permission, and another process has been
\* constructed on it and gone on to the lock, the file truncated only once.
C20_Witness ==
    \E p, q \in Procs :
        /\ p # q
        /\ pc[p] \in {"close", "chmod"}
        /\ sawMissing[p]
        /\ file.exists
        /\ ~OtherRW(file.mode)
        /\ ~sawMissing[q]
        /\ pc[q] \notin {"idle", "exists", "open", "close", "chmod"}
        /\ truncs = 1

====
